---- MODULE Spec2Model ----
(***************************************************************************)
(* rerust: the Result<T, E> record and its four functions ok, err, isOk    *)
(* and isErr (src/src/index.ts), the documented use of isOk with           *)
(* Array.prototype.filter/map, and the early-return chains of the README   *)
(* (getUserWithOrders, getUserData).                                       *)
(*                                                                         *)
(* JavaScript values are tagged records [kind, v].  Objects live in heap   *)
(* and are named by references, as in the language: a Result nested in a   *)
(* Result is a reference to the inner object.                              *)
(***************************************************************************)
EXTENDS Integers, Sequences, FiniteSets, TLC

VARIABLES heap, log, pc, frame, done

vars == <<heap, log, pc, frame, done>>

\* ---------------------------------------------------------------- bounds

\* Library calls made by the client program in one behaviour.
MaxCalls == 3
\* Length of the array handed to results.filter(isOk).map(r => r.value).
MaxLen == 2
\* Callers that share the constructed instances.
NumReaders == 2
\* Invocations of the README functions in one behaviour.
MaxRuns == 2

Readers == 1..NumReaders

\* ------------------------------------------------------ JavaScript values

Num(n) == [kind |-> "number", v |-> n]
Str(s) == [kind |-> "string", v |-> s]
Bool(b) == [kind |-> "boolean", v |-> b]
Null == [kind |-> "null", v |-> 0]
Undefined == [kind |-> "undefined", v |-> 0]
Ref(i) == [kind |-> "object", v |-> i]
\* A plain object ({ id: "1", name: "John" }) and an array, by value.
Obj(fields) == [kind |-> "plain", v |-> fields]
Arr(elems) == [kind |-> "array", v |-> elems]

\* ToBoolean of the language: what `!x` and Array.prototype.filter apply.
ToBoolean(x) ==
    CASE x.kind = "boolean" -> x.v
      [] x.kind = "number" -> x.v # 0
      [] x.kind = "string" -> x.v # ""
      [] x.kind = "null" -> FALSE
      [] x.kind = "undefined" -> FALSE
      [] OTHER -> TRUE

\* The `!` operator.
Not(x) == Bool(~ToBoolean(x))

\* Completion of a call: it returns a value or throws.
Normal(x) == [type |-> "normal", value |-> x]
Throw(e) == [type |-> "throw", value |-> Str(e)]

\* Property read `x.p`: a TypeError on null and undefined, undefined on the
\* other primitives, the field of the object otherwise.
Get(h, x, p) ==
    IF x.kind \in {"null", "undefined"} THEN Throw("TypeError")
    ELSE IF x.kind = "object" THEN Normal(h[x.v][p])
    ELSE IF x.kind = "plain" /\ p \in DOMAIN x.v THEN Normal(x.v[p])
    ELSE Normal(Undefined)

\* ------------------------------------------------------------- index.ts

\* Mutant of ok: the discriminant taken from the truthiness of the payload.
ok_Truthy(value) == [success |-> Bool(ToBoolean(value)), value |-> value]

\* Mutant of ok: a falsy payload replaced by null (`value || null`).
ok_Coerce(value) ==
    [success |-> Bool(TRUE), value |-> IF ToBoolean(value) THEN value ELSE Null]

\* export const ok = <T>(value: T): Result<T> => ({ success: true, value })
ok(value) == [success |-> Bool(TRUE), value |-> value]

\* Mutant of err: the literal of ok pasted, discriminant left true.
err_Pasted(value) == [success |-> Bool(TRUE), value |-> value]

\* export const err = <E extends string>(value: E) => ({ success: false, value })
err(value) == [success |-> Bool(FALSE), value |-> value]

\* Mutant of isOk: reads the discriminant off the payload.
isOk_Deep(h, result) ==
    LET c == Get(h, result, "value")
    IN  IF c.type = "throw" THEN c ELSE Get(h, c.value, "success")

\* Mutant of isOk: tests the payload instead of the discriminant.
isOk_Payload(h, result) ==
    LET c == Get(h, result, "value")
    IN  IF c.type = "throw" THEN c ELSE Normal(Bool(ToBoolean(c.value)))

\* export const isOk = (result) => result.success
isOk(h, result) == Get(h, result, "success")

\* Mutant of isErr: negates the payload instead of the discriminant.
isErr_Payload(h, result) ==
    LET c == Get(h, result, "value")
    IN  IF c.type = "throw" THEN c ELSE Normal(Not(c.value))

\* Mutant of isErr: the negation dropped.
isErr_Inverted(h, result) == Get(h, result, "success")

\* export const isErr = (result) => !result.success
isErr(h, result) ==
    LET c == Get(h, result, "success")
    IN  IF c.type = "throw" THEN c ELSE Normal(Not(c.value))

\* ---------------------------------------------- Array.prototype.filter, map

\* results.filter(isOk): the elements for which the callback's result is
\* truthy, pushed in index order; a throwing callback ends the call.
RECURSIVE FilterIsOk(_, _, _, _)
FilterIsOk(h, arr, k, acc) ==
    IF k > Len(arr) THEN Normal(Arr(acc))
    ELSE LET c == isOk(h, arr[k])
         IN  IF c.type = "throw" THEN c
             ELSE FilterIsOk(h, arr, k + 1,
                             IF ToBoolean(c.value) THEN Append(acc, arr[k]) ELSE acc)

\* .map(r => r.value)
RECURSIVE MapValue(_, _, _, _)
MapValue(h, arr, k, acc) ==
    IF k > Len(arr) THEN Normal(Arr(acc))
    ELSE LET c == Get(h, arr[k], "value")
         IN  IF c.type = "throw" THEN c
             ELSE MapValue(h, arr, k + 1, Append(acc, c.value))

\* results.filter(isOk).map(r => r.value)
FilterMap(h, arr) ==
    LET f == FilterIsOk(h, arr, 1, <<>>)
    IN  IF f.type = "throw" THEN f ELSE MapValue(h, f.value.v, 1, <<>>)

\* ------------------------------------------------------- the client's inputs

\* Payloads handed to ok: falsy and truthy primitives, and the instances
\* built so far.
Primitives ==
    {Num(0), Num(42), Str(""), Bool(FALSE), Null, Undefined}

Payloads(h) == Primitives \cup {Ref(i) : i \in DOMAIN h}

\* Payloads handed to err (E extends string).
ErrorPayloads == {Str(""), Str("User not found")}

\* Records written by hand (index.ts, the examples of the Result type).
HandWritten ==
    { [success |-> Bool(TRUE), value |-> Num(42)],
      [success |-> Bool(FALSE), value |-> Str("NOT_FOUND")] }

\* Arrays of the instances built so far, at most n long.
Arrays(h, n) ==
    UNION { [1..m -> {Ref(i) : i \in DOMAIN h}] : m \in 0..n }

\* A call of the library as the client saw it.
Call(op, by, arg, ret) == [op |-> op, by |-> by, arg |-> arg, ret |-> ret]

NoFrame == [fn |-> "none"]

Init ==
    /\ heap = <<>>
    /\ log = <<>>
    /\ pc = "idle"
    /\ frame = NoFrame
    /\ done = <<>>

\* ------------------------------------------------------------- the calls

\* ok(value): the object literal is allocated and its reference returned.
CallOk(value) ==
    /\ Len(log) < MaxCalls
    /\ heap' = Append(heap, ok(value))
    /\ log' = Append(log, Call("ok", 0, value, Normal(Ref(Len(heap) + 1))))
    /\ UNCHANGED <<pc, frame, done>>

\* err(value)
CallErr(value) ==
    /\ Len(log) < MaxCalls
    /\ heap' = Append(heap, err(value))
    /\ log' = Append(log, Call("err", 0, value, Normal(Ref(Len(heap) + 1))))
    /\ UNCHANGED <<pc, frame, done>>

\* const r: Result<...> = { success: ..., value: ... }
Literal(obj) ==
    /\ Len(log) < MaxCalls
    /\ heap' = Append(heap, obj)
    /\ log' = Append(log, Call("literal", 0, obj.value, Normal(Ref(Len(heap) + 1))))
    /\ UNCHANGED <<pc, frame, done>>

\* Mutant of CallIsOk: `result.success = true` written for `result.success`.
CallIsOk_Assign(rd, i) ==
    /\ Len(log) < MaxCalls
    /\ heap' = [heap EXCEPT ![i].success = Bool(TRUE)]
    /\ log' = Append(log, Call("isOk", rd, Ref(i), Normal(Bool(TRUE))))
    /\ UNCHANGED <<pc, frame, done>>

\* Reader rd calls isOk on the shared instance i.
CallIsOk(rd, i) ==
    /\ Len(log) < MaxCalls
    /\ log' = Append(log, Call("isOk", rd, Ref(i), isOk(heap, Ref(i))))
    /\ UNCHANGED <<heap, pc, frame, done>>

\* Mutant of CallIsErr: the negation written back into the record.
CallIsErr_WriteBack(rd, i) ==
    /\ Len(log) < MaxCalls
    /\ heap' = [heap EXCEPT ![i].success = Not(@)]
    /\ log' = Append(log, Call("isErr", rd, Ref(i), isErr(heap, Ref(i))))
    /\ UNCHANGED <<pc, frame, done>>

\* Reader rd calls isErr on the shared instance i.
CallIsErr(rd, i) ==
    /\ Len(log) < MaxCalls
    /\ log' = Append(log, Call("isErr", rd, Ref(i), isErr(heap, Ref(i))))
    /\ UNCHANGED <<heap, pc, frame, done>>

\* The client runs results.filter(isOk).map(r => r.value) on an array of
\* the shared instances.
CallFilterMap(arr) ==
    /\ Len(log) < MaxCalls
    /\ log' = Append(log, Call("filterMap", 0, Arr(arr), FilterMap(heap, arr)))
    /\ UNCHANGED <<heap, pc, frame, done>>

Next ==
    \/ \E value \in Payloads(heap) : CallOk(value)
    \/ \E value \in ErrorPayloads : CallErr(value)
    \/ \E obj \in HandWritten : Literal(obj)
    \/ \E rd \in Readers, i \in DOMAIN heap : CallIsOk(rd, i)
    \/ \E rd \in Readers, i \in DOMAIN heap : CallIsErr(rd, i)
    \/ \E arr \in Arrays(heap, MaxLen) : CallFilterMap(arr)

Spec == Init /\ [][Next]_vars

\* ------------------------------------------------- README: chaining Results

\* function findUser(id: string): Result<User>
findUser(id) ==
    IF id = Str("1")
    THEN ok(Obj([id |-> Str("1"), name |-> Str("John")]))
    ELSE err(Str("User not found"))

\* function getUserOrders(user: User): Result<Order[]>
getUserOrders(user) ==
    ok(Arr(<<Obj([id |-> Str("order1"),
                  items |-> Arr(<<Str("item1"), Str("item2")>>)])>>))

\* The ids the callers pass.
UserIds == {Str("1"), Str("999")}

\* What fetch, res.json() and validateUserData, which the README leaves to
\* the application, may answer.
FetchOutcomes == {"ok", "notOk", "rejected"}
JsonOutcomes == {"data", "rejected"}
UserData == Obj([name |-> Str("John")])

\* One executed step of a chain: the Result it returned, as it was then.
Step(name, ref, obj) == [step |-> name, ret |-> ref, obj |-> obj]

\* The invocation ends with completion c.
Finish(c) ==
    /\ done' = Append(done, [fn |-> frame.fn, userId |-> frame.userId,
                             trace |-> frame.trace, result |-> c])
    /\ pc' = "idle"
    /\ frame' = NoFrame

\* A caller invokes getUserWithOrders(userId).
Invoke_getUserWithOrders(userId) ==
    /\ pc = "idle"
    /\ Len(done) < MaxRuns
    /\ frame' = [fn |-> "getUserWithOrders", userId |-> userId,
                 userResult |-> Undefined, ordersResult |-> Undefined,
                 trace |-> <<>>]
    /\ pc' = "gwo130"
    /\ UNCHANGED <<heap, log, done>>

\* const userResult = findUser(userId);
GWO_findUser ==
    /\ pc = "gwo130"
    /\ LET obj == findUser(frame.userId)
           ref == Ref(Len(heap) + 1)
       IN  /\ heap' = Append(heap, obj)
           /\ frame' = [frame EXCEPT !.userResult = ref,
                                     !.trace = Append(@, Step("findUser", ref, obj))]
    /\ pc' = "gwo131"
    /\ UNCHANGED <<log, done>>

\* if (isErr(userResult)) return userResult;
GWO_checkUser ==
    /\ pc = "gwo131"
    /\ LET c == isErr(heap, frame.userResult)
       IN  IF c.type = "throw" THEN Finish(c)
           ELSE IF ToBoolean(c.value) THEN Finish(Normal(frame.userResult))
           ELSE pc' = "gwo133" /\ UNCHANGED <<frame, done>>
    /\ UNCHANGED <<heap, log>>

\* const ordersResult = getUserOrders(userResult.value);
GWO_getUserOrders ==
    /\ pc = "gwo133"
    /\ LET user == Get(heap, frame.userResult, "value")
           obj == getUserOrders(user.value)
           ref == Ref(Len(heap) + 1)
       IN  /\ heap' = Append(heap, obj)
           /\ frame' = [frame EXCEPT !.ordersResult = ref,
                                     !.trace = Append(@, Step("getUserOrders", ref, obj))]
    /\ pc' = "gwo134"
    /\ UNCHANGED <<log, done>>

\* if (isErr(ordersResult)) return ordersResult;
GWO_checkOrders ==
    /\ pc = "gwo134"
    /\ LET c == isErr(heap, frame.ordersResult)
       IN  IF c.type = "throw" THEN Finish(c)
           ELSE IF ToBoolean(c.value) THEN Finish(Normal(frame.ordersResult))
           ELSE pc' = "gwo136" /\ UNCHANGED <<frame, done>>
    /\ UNCHANGED <<heap, log>>

\* return ok({ user: userResult.value, orders: ordersResult.value });
GWO_return ==
    /\ pc = "gwo136"
    /\ LET user == Get(heap, frame.userResult, "value")
           orders == Get(heap, frame.ordersResult, "value")
       IN  /\ heap' = Append(heap, ok(Obj([user |-> user.value,
                                           orders |-> orders.value])))
           /\ Finish(Normal(Ref(Len(heap) + 1)))
    /\ UNCHANGED log

\* --------------------------------------------------- README: After ReRust

\* A caller invokes getUserData(userId).
Invoke_getUserData(userId) ==
    /\ pc = "idle"
    /\ Len(done) < MaxRuns
    /\ frame' = [fn |-> "getUserData", userId |-> userId,
                 response |-> Undefined, data |-> Undefined,
                 validationResult |-> Undefined, trace |-> <<>>]
    /\ pc' = "gud86"
    /\ UNCHANGED <<heap, log, done>>

\* const response = await fetch(...)
\*   .then((res) => (res.ok ? ok(res) : err("Failed to fetch user")))
\*   .catch(() => err("Network error"));
GUD_fetch(outcome) ==
    /\ pc = "gud86"
    /\ LET obj == CASE outcome = "ok" -> ok(Obj([ok |-> Bool(TRUE)]))
                    [] outcome = "notOk" -> err(Str("Failed to fetch user"))
                    [] OTHER -> err(Str("Network error"))
           ref == Ref(Len(heap) + 1)
       IN  /\ heap' = Append(heap, obj)
           /\ frame' = [frame EXCEPT !.response = ref,
                                     !.trace = Append(@, Step("fetch", ref, obj))]
    /\ pc' = "gud90"
    /\ UNCHANGED <<log, done>>

\* if (isErr(response)) return response;
GUD_checkResponse ==
    /\ pc = "gud90"
    /\ LET c == isErr(heap, frame.response)
       IN  IF c.type = "throw" THEN Finish(c)
           ELSE IF ToBoolean(c.value) THEN Finish(Normal(frame.response))
           ELSE pc' = "gud92" /\ UNCHANGED <<frame, done>>
    /\ UNCHANGED <<heap, log>>

\* const data = await response.value.json();
GUD_json(outcome) ==
    /\ pc = "gud92"
    /\ IF outcome = "rejected" THEN Finish(Throw("SyntaxError"))
       ELSE /\ frame' = [frame EXCEPT !.data = UserData]
            /\ pc' = "gud93"
            /\ UNCHANGED done
    /\ UNCHANGED <<heap, log>>

\* const validationResult = validateUserData(data);
GUD_validate(valid) ==
    /\ pc = "gud93"
    /\ LET obj == IF valid THEN ok(frame.data) ELSE err(Str("name is missing"))
           ref == Ref(Len(heap) + 1)
       IN  /\ heap' = Append(heap, obj)
           /\ frame' = [frame EXCEPT !.validationResult = ref,
                                     !.trace = Append(@, Step("validateUserData", ref, obj))]
    /\ pc' = "gud95"
    /\ UNCHANGED <<log, done>>

\* return isOk(validationResult) ? ok(data) : err("Invalid user data");
GUD_return ==
    /\ pc = "gud95"
    /\ LET c == isOk(heap, frame.validationResult)
       IN  IF c.type = "throw" THEN Finish(c) /\ UNCHANGED heap
           ELSE /\ heap' = Append(heap, IF ToBoolean(c.value)
                                        THEN ok(frame.data)
                                        ELSE err(Str("Invalid user data")))
                /\ Finish(Normal(Ref(Len(heap) + 1)))
    /\ UNCHANGED log

NextChain ==
    \/ \E userId \in UserIds : Invoke_getUserWithOrders(userId)
    \/ GWO_findUser
    \/ GWO_checkUser
    \/ GWO_getUserOrders
    \/ GWO_checkOrders
    \/ GWO_return
    \/ \E userId \in UserIds : Invoke_getUserData(userId)
    \/ \E outcome \in FetchOutcomes : GUD_fetch(outcome)
    \/ GUD_checkResponse
    \/ \E outcome \in JsonOutcomes : GUD_json(outcome)
    \/ \E valid \in BOOLEAN : GUD_validate(valid)
    \/ GUD_return

SpecChain == Init /\ [][NextChain]_vars

\* --------------------------------------------------------------- claims

\* The instance a constructor call returned.
Made(k) == log[k].ret.value

Preds == {"isOk", "isErr"}

\* The indices of arr whose element has the success discriminant.
SuccessAt(h, arr) == {k \in DOMAIN arr : h[arr[k].v].success = Bool(TRUE)}

\* The j-th smallest element of a set of numbers.
Nth(S, j) == CHOOSE k \in S : Cardinality({m \in S : m < k}) = j - 1

\* C1: every Result returned by ok(v), for falsy v and for v a Result too,
\* has the success discriminant: isOk of it is true and isErr of it false.
C1_OkIsSuccess ==
    \A k \in DOMAIN log :
        log[k].op = "ok" =>
            /\ log[k].ret.type = "normal"
            /\ Made(k).kind = "object" /\ Made(k).v \in DOMAIN heap
            /\ heap[Made(k).v].success = Bool(TRUE)
            /\ isOk(heap, Made(k)) = Normal(Bool(TRUE))
            /\ isErr(heap, Made(k)) = Normal(Bool(FALSE))

\* ok was called with a falsy payload and with a Result as payload.
C1_Witness ==
    /\ \E k \in DOMAIN log : log[k].op = "ok" /\ ~ToBoolean(log[k].arg)
    /\ \E k \in DOMAIN log : log[k].op = "ok" /\ log[k].arg.kind = "object"

\* C2: every Result returned by err(e), the empty string included, has the
\* failure discriminant: isErr of it is true and isOk of it false.
C2_ErrIsFailure ==
    \A k \in DOMAIN log :
        log[k].op = "err" =>
            /\ log[k].ret.type = "normal"
            /\ Made(k).kind = "object" /\ Made(k).v \in DOMAIN heap
            /\ heap[Made(k).v].success = Bool(FALSE)
            /\ isErr(heap, Made(k)) = Normal(Bool(TRUE))
            /\ isOk(heap, Made(k)) = Normal(Bool(FALSE))

\* err was called with the empty string and with a non-empty one.
C2_Witness ==
    /\ \E k \in DOMAIN log : log[k].op = "err" /\ log[k].arg = Str("")
    /\ \E k \in DOMAIN log : log[k].op = "err" /\ log[k].arg = Str("User not found")

\* C3: on every instance, built by ok, by err or written by hand, isOk and
\* isErr return booleans that are complements, isOk true exactly when the
\* discriminant is success.
C3_Complement ==
    \A i \in DOMAIN heap :
        LET a == isOk(heap, Ref(i))
            b == isErr(heap, Ref(i))
        IN  /\ a.type = "normal" /\ b.type = "normal"
            /\ a.value.kind = "boolean" /\ b.value.kind = "boolean"
            /\ a.value.v # b.value.v
            /\ a.value.v <=> (heap[i].success = Bool(TRUE))

\* Both predicates were called on a hand-written failure record.
C3_Witness ==
    /\ \E k, j, m \in DOMAIN log :
          /\ log[k].op = "literal" /\ heap[Made(k).v].success = Bool(FALSE)
          /\ log[j].op = "isOk" /\ log[j].arg = Made(k)
          /\ log[m].op = "isErr" /\ log[m].arg = Made(k)

\* C4: the value field of ok(v), read where isOk holds, is v, and the value
\* field of err(e), read where isErr holds, is e: the payload is stored as
\* given, a nested Result as the reference it was.
C4_RoundTrip ==
    \A k \in DOMAIN log :
        /\ log[k].op = "ok" =>
              /\ ToBoolean(isOk(heap, Made(k)).value)
              /\ Get(heap, Made(k), "value") = Normal(log[k].arg)
        /\ log[k].op = "err" =>
              /\ ToBoolean(isErr(heap, Made(k)).value)
              /\ Get(heap, Made(k), "value") = Normal(log[k].arg)

\* A Result wrapped by ok, a falsy payload wrapped by ok, and an err.
C4_Witness ==
    /\ \E k \in DOMAIN log : log[k].op = "ok" /\ log[k].arg.kind = "object"
    /\ \E k \in DOMAIN log : log[k].op = "ok" /\ ~ToBoolean(log[k].arg)
    /\ \E k \in DOMAIN log : log[k].op = "err"

\* C5: results.filter(isOk).map(r => r.value) returns the payloads of the
\* success elements of the array, in their order and multiplicity, and
\* nothing else.
C5_FilterMap ==
    \A k \in DOMAIN log :
        log[k].op = "filterMap" =>
            LET arr == log[k].arg.v
                S == SuccessAt(heap, arr)
            IN  /\ log[k].ret.type = "normal"
                /\ log[k].ret.value.kind = "array"
                /\ Len(log[k].ret.value.v) = Cardinality(S)
                /\ \A j \in 1..Cardinality(S) :
                      log[k].ret.value.v[j] = heap[arr[Nth(S, j)].v].value

\* An array holding a failure before a success with a falsy payload was
\* filtered.
C5_Witness ==
    \E k \in DOMAIN log :
        /\ log[k].op = "filterMap"
        /\ Len(log[k].arg.v) = 2
        /\ heap[log[k].arg.v[1].v].success = Bool(FALSE)
        /\ heap[log[k].arg.v[2].v].success = Bool(TRUE)
        /\ ~ToBoolean(heap[log[k].arg.v[2].v].value)

\* C6: no call fails, in any sequence of calls: every call completes
\* without throwing, ok and err return a Result, isOk and isErr a boolean.
C6_NeverFails ==
    \A k \in DOMAIN log :
        /\ log[k].ret.type = "normal"
        /\ log[k].op \in {"ok", "err"} =>
              /\ Made(k).kind = "object" /\ Made(k).v \in DOMAIN heap
              /\ heap[Made(k).v].success.kind = "boolean"
        /\ log[k].op \in Preds => log[k].ret.value.kind = "boolean"

\* Both predicates were called on an instance whose payload is null or
\* undefined.
C6_Witness ==
    \E k, j, m \in DOMAIN log :
        /\ log[k].op = "ok" /\ log[k].arg \in {Null, Undefined}
        /\ log[j].op = "isOk" /\ log[j].arg = Made(k)
        /\ log[m].op = "isErr" /\ log[m].arg = Made(k)

\* C7: no call changes the discriminant or the payload of an instance that
\* exists, whoever reads it, and a construction leaves the earlier
\* instances as they were.
C7_Immutable ==
    [][\A i \in DOMAIN heap : i \in DOMAIN heap' /\ heap'[i] = heap[i]]_vars

\* Two readers have read the same instance.
C7_Witness ==
    \E j, m \in DOMAIN log :
        /\ log[j].op \in Preds /\ log[m].op \in Preds
        /\ log[j].arg = log[m].arg
        /\ log[j].by # log[m].by

Guarded(fn) == IF fn = "getUserWithOrders" THEN {1, 2} ELSE {1}
StepCount(fn) == 2

\* The executed steps of a finished invocation that returned a failure.
Failing(d) == {k \in DOMAIN d.trace : d.trace[k].obj.success = Bool(FALSE)}

====
